---- MODULE Spec2Model ----
(***************************************************************************)
(* Health Prediction Engine (src/src/lib/healthJournalReminders.ts, the    *)
(* healthPredictionEngine part, lines 244-633), with the weather helpers   *)
(* of src/src/lib/medicineApi.ts and the types of src/unnamed/part_007.    *)
(*                                                                         *)
(* Numbers.  confidence is a rational kept as [n, d] with d = 100 * total  *)
(* entries, so that min(freq/total, 0.4), the 0.3 weather bonus and the    *)
(* recency term 0.3 - 0.02 * days are all exact integers over d.           *)
(* minConfidence is kept in hundredths.  The code computes in IEEE doubles; *)
(* over the journals of this model (7 or 8 entries, 28 to 30 in the daily  *)
(* journals, at the distances in days they reach) the comparisons and the  *)
(* rounding of the doubles agree with the exact values.                    *)
(*                                                                         *)
(* Time.  The clock is counted in ticks, TicksPerDay to a day, from UTC    *)
(* midnight of day 0 = 2023-01-01 (a Sunday).  A calendar date (the        *)
(* 'YYYY-MM-DD' strings of the code) is its day number; the strings are    *)
(* compared lexicographically in the code, which is the order of the day   *)
(* numbers.  tz is the offset of local time from UTC in ticks: the code    *)
(* mixes local dates (setHours, getDay, getDate) with UTC dates            *)
(* (toISOString, new Date('YYYY-MM-DD')).                                  *)
(***************************************************************************)
EXTENDS Integers, Sequences, FiniteSets, TLC

VARIABLES
    now,            \* ticks elapsed since UTC midnight of StartDay (Date.now())
    tz,             \* local time minus UTC, in ticks (the browser's timezone)
    entries,        \* the caller's JournalEntry[] array handed to generate
    settingsStore,  \* localStorage[PREDICTION_SETTINGS_KEY]
    predStore,      \* localStorage[PREDICTION_STORAGE_KEY]
    run             \* the generateHealthPredictions call (its locals and result)

vars == <<now, tz, entries, settingsStore, predStore, run>>

(***************************** bounds **************************************)
TicksPerDay == 2
MaxNow == 4
StartDay == 56

(*************************** small helpers *********************************)
Min(a, b) == IF a <= b THEN a ELSE b
Max(a, b) == IF a >= b THEN a ELSE b
Abs(a) == IF a >= 0 THEN a ELSE 0 - a

\* Math.floor(p / q) for q > 0
FloorDiv(p, q) == p \div q

\* MathRound with a fault seeded, for the sensitivity check of the properties
MathRound_Floor(p, q) == p \div q

\* Math.round(p / q) for q > 0: floor(p/q + 1/2)
MathRound(p, q) == (2 * p + q) \div (2 * q)

RECURSIVE SumSeq(_)
SumSeq(s) == IF s = <<>> THEN 0 ELSE Head(s) + SumSeq(Tail(s))

RECURSIVE FlatSeq(_)
FlatSeq(ss) == IF ss = <<>> THEN <<>> ELSE Head(ss) \o FlatSeq(Tail(ss))

\* the sequence with the duplicates after a first appearance removed
\* (the key order of an object filled by insertion)
RECURSIVE InsertionOrder(_)
InsertionOrder(s) ==
    IF s = <<>> THEN <<>>
    ELSE LET rest == InsertionOrder(SelectSeq(Tail(s), LAMBDA x : x # Head(s)))
         IN  <<Head(s)>> \o rest

(****************************** calendar ***********************************)
\* 2023: the day number of the first day of each month, and of 2024-01-01
MonthStart == <<0, 31, 59, 90, 120, 151, 181, 212, 243, 273, 304, 334, 365>>

\* Date.prototype.getMonth (0-based) of the day numbered d
GetMonth(d) == CHOOSE m \in 0..11 : MonthStart[m + 1] <= d /\ d < MonthStart[m + 2]

\* Date.prototype.getDate
GetDate(d) == d - MonthStart[GetMonth(d) + 1] + 1

\* Date.prototype.getDay (0 = Sunday); day 0 is a Sunday
GetDay(d) == d % 7

\* Date.prototype.setMonth(getMonth() + 1, dayOfMonth): the day numbered
\* dayOfMonth of the month after d's, overflowing into the months after
SetNextMonth(d, dayOfMonth) == MonthStart[GetMonth(d) + 2] + dayOfMonth - 1

(******************************* clock *************************************)
\* Date.now() in ticks since the epoch (UTC midnight of day 0)
NowTick == StartDay * TicksPerDay + now

\* new Date().toISOString().split('T')[0]: the UTC date of an instant
IsoDate(tick) == FloorDiv(tick, TicksPerDay)

\* the local calendar day of an instant (what getDay/getDate/setHours see)
LocalDay(tick) == FloorDiv(tick + tz, TicksPerDay)

\* the instant of local midnight of a local day: today.setHours(0, 0, 0, 0)
LocalMidnight(day) == day * TicksPerDay - tz

\* new Date('YYYY-MM-DD').getTime(): a date-only string is UTC midnight
ParseDate(day) == day * TicksPerDay

TodayUtc == IsoDate(NowTick)

(*************************** JavaScript values *****************************)
\* undefined, for the optional fields (PatternMatch.dayOfWeek, timeOfMonth)
\* and for a JournalEntry whose date is missing
Undefined == -1

\* NaN: getDay()/getDate() of an Invalid Date, parseInt("NaN")
NaN == -2

\* a value read where the code expects a string[]: an array with its items,
\* or something else (undefined, null), on which .forEach throws a TypeError
Arr(items) == [isArray |-> TRUE, items |-> items]
NotAnArray == [isArray |-> FALSE, items |-> <<>>]

(****************************** settings ***********************************)
\* DEFAULT_PREDICTION_SETTINGS; minConfidence 0.6 in hundredths
DEFAULT_PREDICTION_SETTINGS ==
    [enabled |-> TRUE, notificationsEnabled |-> TRUE, weatherIntegration |-> TRUE,
     minConfidence |-> 60, daysToPredict |-> 3]

\* the minimum number of entries (generateHealthPredictions, analyzePatterns)
MinEntries == 7

\* a localStorage item: absent (getItem returns null) or the saved value.
\* The values are written by JSON.stringify and read by JSON.parse; for the
\* plain data saved here (finite numbers, strings, booleans, arrays, objects
\* with no undefined field) parsing returns the value that was written.
NoItem == [present |-> FALSE, value |-> <<>>]
Item(v) == [present |-> TRUE, value |-> v]

\* getPredictionSettings with a fault seeded, for the sensitivity check of the properties
getPredictionSettings_Default == DEFAULT_PREDICTION_SETTINGS

\* getPredictionSettings
getPredictionSettings ==
    IF settingsStore.present THEN settingsStore.value ELSE DEFAULT_PREDICTION_SETTINGS

(************************** pattern detection ******************************)
\* entries.sort((a, b) => b.date.localeCompare(a.date)): the comparator's
\* sign.  A missing date in a is coerced to the string "undefined", which is
\* after every 'YYYY-MM-DD' string.
DateKey(e) == IF e.date = Undefined THEN 1000000 ELSE e.date
CompareEntries(a, b) ==
    IF DateKey(b) < DateKey(a) THEN -1 ELSE IF DateKey(b) > DateKey(a) THEN 1 ELSE 0

\* Array.prototype.sort is stable: x goes after the elements it does not precede
RECURSIVE InsertEntry(_, _)
InsertEntry(x, s) ==
    IF s = <<>> THEN <<x>>
    ELSE IF CompareEntries(x, Head(s)) < 0 THEN <<x>> \o s
    ELSE <<Head(s)>> \o InsertEntry(x, Tail(s))

RECURSIVE SortEntries(_)
SortEntries(s) ==
    IF s = <<>> THEN <<>>
    ELSE InsertEntry(s[Len(s)], SortEntries(SubSeq(s, 1, Len(s) - 1)))

\* b.date.localeCompare throws a TypeError when b.date is undefined.  Which
\* elements the engine passes as b is implementation-defined: with every date
\* missing any comparison throws; with some missing it may or may not.
SortThrows(es) ==
    LET undated == {i \in 1..Len(es) : es[i].date = Undefined}
    IN  IF Len(es) < 2 \/ undated = {} THEN {FALSE}
        ELSE IF undated = 1..Len(es) THEN {TRUE}
        ELSE {TRUE, FALSE}

\* new Date(entry.date).getDay() / .getDate(): the date string is parsed as
\* UTC midnight and read back in local time
EntryLocalDay(date) == LocalDay(ParseDate(date))
EntryGetDay(date) == IF date = Undefined THEN NaN ELSE GetDay(EntryLocalDay(date))
EntryGetDate(date) == IF date = Undefined THEN NaN ELSE GetDate(EntryLocalDay(date))

\* analyzePatternsThrows with a fault seeded, for the sensitivity check of the properties
analyzePatternsThrows_Never(es) == FALSE

\* entry.symptoms.forEach throws when symptoms is not an array
analyzePatternsThrows(es) ==
    Len(es) >= MinEntries /\ \E i \in 1..Len(es) : ~es[i].symptoms.isArray

\* the (symptom, date) pairs in the order the two nested forEach visit them
Occurrences(es) ==
    FlatSeq([i \in 1..Len(es) |->
        [j \in 1..Len(es[i].symptoms.items) |->
            [symptom |-> es[i].symptoms.items[j], date |-> es[i].date]]])

\* Object.entries(symptomOccurrences): the symptoms by first appearance
SymptomKeys(es) ==
    LET occ == Occurrences(es)
    IN  InsertionOrder([i \in 1..Len(occ) |-> occ[i].symptom])

\* symptomOccurrences[symptom].dates
DatesOf(es, symptom) ==
    LET occ == SelectSeq(Occurrences(es), LAMBDA o : o.symptom = symptom)
    IN  [i \in 1..Len(occ) |-> occ[i].date]

\* dayFrequency[day] || 0
DayFrequency(dates, day) ==
    Cardinality({i \in 1..Len(dates) : EntryGetDay(dates[i]) = day})

\* Object.entries(dayFrequency).sort(([, a], [, b]) => b - a)[0][0]: the keys
\* 0..6 come first in ascending order, then "NaN"; the sort is stable, so the
\* first key of the highest count wins
MostCommonDay(dates) ==
    LET keys == <<0, 1, 2, 3, 4, 5, 6, NaN>>
        best == Max(0, CHOOSE c \in 0..Len(dates) :
                        /\ \E k \in 1..8 : DayFrequency(dates, keys[k]) = c
                        /\ \A k \in 1..8 : DayFrequency(dates, keys[k]) <= c)
        first == CHOOSE k \in 1..8 :
                        /\ DayFrequency(dates, keys[k]) = best
                        /\ \A j \in 1..(k - 1) : DayFrequency(dates, keys[j]) < best
    IN  keys[first]

\* WeeklyThreshold with a fault seeded, for the sensitivity check of the properties
WeeklyThreshold_Strict(count, length) == 10 * count > 4 * length /\ count >= 2

\* WeeklyThreshold with a fault seeded, for the sensitivity check of the properties
WeeklyThreshold_Third(count, length) == 3 * count >= length

\* count >= data.dates.length * 0.4
WeeklyThreshold(count, length) == 10 * count >= 4 * length

\* the monthly test: population variance of the days of month < 25, with at
\* least 3 occurrences; NaN (an Invalid Date) makes the variance NaN and the
\* comparison false
HasMonthlyPattern(dates) ==
    LET n == Len(dates)
        doms == [i \in 1..n |-> EntryGetDate(dates[i])]
        sum == SumSeq(doms)
        sumsq == SumSeq([i \in 1..n |-> doms[i] * doms[i]])
    IN  /\ \A i \in 1..n : doms[i] # NaN
        /\ n * sumsq - sum * sum < 25 * n * n
        /\ n >= 3

\* Math.round(avgDayOfMonth)
TimeOfMonth(dates) ==
    MathRound(SumSeq([i \in 1..Len(dates) |-> EntryGetDate(dates[i])]), Len(dates))

\* the patterns pushed for one symptom: the weekly one, then the monthly one
PatternsOf(es, symptom) ==
    LET dates == DatesOf(es, symptom)
        day == MostCommonDay(dates)
        weekly == [symptom |-> symptom, dayOfWeek |-> day, timeOfMonth |-> Undefined,
                   frequency |-> Len(dates), lastOccurrence |-> dates[Len(dates)]]
        monthly == [symptom |-> symptom, dayOfWeek |-> Undefined,
                    timeOfMonth |-> TimeOfMonth(dates),
                    frequency |-> Len(dates), lastOccurrence |-> dates[Len(dates)]]
    IN  IF Len(dates) < 2 THEN <<>>
        ELSE (IF WeeklyThreshold(DayFrequency(dates, day), Len(dates))
                 THEN <<weekly>> ELSE <<>>)
             \o (IF HasMonthlyPattern(dates) THEN <<monthly>> ELSE <<>>)

\* analyzePatterns (when it does not throw)
analyzePatterns(es) ==
    IF Len(es) < MinEntries THEN <<>>
    ELSE LET keys == SymptomKeys(es)
         IN  FlatSeq([k \in 1..Len(keys) |-> PatternsOf(es, keys[k])])

(******************************* weather ***********************************)
\* what a fetch of the weather provider gives: a value, or a thrown error
Fetched(v) == [ok |-> TRUE, value |-> v]
FetchFailed == [ok |-> FALSE, value |-> <<>>]

\* getWeatherChanges
getWeatherChanges(current, forecast) ==
    LET idx == {i \in 1..Len(forecast) : forecast[i].daysAhead = 1}
    IN  IF idx = {}
        THEN [pressureDrop |-> 0, temperatureChange |-> 0, humidityChange |-> 0]
        ELSE LET tomorrow == forecast[CHOOSE i \in idx : \A j \in idx : i <= j]
             IN  [pressureDrop |-> current.pressure - tomorrow.pressure,
                  temperatureChange |-> tomorrow.temperature - current.temperature,
                  humidityChange |-> tomorrow.humidity - current.humidity]

\* symptom.toLowerCase().includes('headache') || ...includes('migraine'),
\* for the labels of the model
IsHeadacheOrMigraine(symptom) == symptom \in {"Headache", "Migraine"}

\* WeatherFactors with a fault seeded, for the sensitivity check of the properties
WeatherFactors_AnyLabel(symptom, changes) ==
    (IF changes.pressureDrop > 5 THEN <<"pressure drop">> ELSE <<>>)
    \o (IF Abs(changes.temperatureChange) > 10 THEN <<"temperature change">> ELSE <<>>)
    \o (IF Abs(changes.humidityChange) > 20 THEN <<"humidity change">> ELSE <<>>)

\* the triggers pushed for one symptom, in the order of the three tests
WeatherFactors(symptom, changes) ==
    (IF changes.pressureDrop > 5 /\ IsHeadacheOrMigraine(symptom)
        THEN <<"pressure drop">> ELSE <<>>)
    \o (IF Abs(changes.temperatureChange) > 10 THEN <<"temperature change">> ELSE <<>>)
    \o (IF Abs(changes.humidityChange) > 20 THEN <<"humidity change">> ELSE <<>>)

\* analyzeWeatherTriggers with a fault seeded, for the sensitivity check of the properties
analyzeWeatherTriggers_DefaultCurrent(es, forecast, current) ==
    LET changes == getWeatherChanges(
                      IF current.ok THEN current.value
                      ELSE [temperature |-> 20, humidity |-> 50, pressure |-> 1013],
                      forecast)
        symptoms == SymptomKeys(es)
    IN  [k \in 1..Len(symptoms) |->
            LET factors == WeatherFactors(symptoms[k], changes)
            IN  [symptom |-> symptoms[k],
                 weatherSensitive |-> Len(factors) > 0,
                 triggers |-> factors]]

\* analyzeWeatherTriggers: current is the outcome of getCurrentWeather(); a
\* throw inside the try (the fetch, or symptoms that is not an array) leaves
\* results empty.  The Set of symptoms keeps insertion order.
analyzeWeatherTriggers(es, forecast, current) ==
    IF ~current.ok \/ (\E i \in 1..Len(es) : ~es[i].symptoms.isArray) THEN <<>>
    ELSE LET changes == getWeatherChanges(current.value, forecast)
             symptoms == SymptomKeys(es)
         IN  [k \in 1..Len(symptoms) |->
                LET factors == WeatherFactors(symptoms[k], changes)
                IN  [symptom |-> symptoms[k],
                     weatherSensitive |-> Len(factors) > 0,
                     triggers |-> factors]]

\* lines 439-453: the forecast fetch and the correlator, both best-effort
WeatherTriggers(es, wx) ==
    IF ~wx.forecast.ok THEN <<>>
    ELSE analyzeWeatherTriggers(es, wx.forecast.value, wx.current)

(******************************* scoring ***********************************)
\* calculateConfidence with a fault seeded, for the sensitivity check of the properties
calculateConfidence_Undivided(patternFrequency, totalEntries, weatherMatch, daysSinceLastOccurrence) ==
    LET patternStrength == 100 * patternFrequency * totalEntries
        weather == IF weatherMatch THEN 30 * totalEntries ELSE 0
        recencyScore == Max(0, (30 - 2 * daysSinceLastOccurrence) * totalEntries)
    IN  Min(patternStrength + weather + recencyScore, 100 * totalEntries)

\* calculateConfidence, as the numerator over 100 * totalEntries
calculateConfidence(patternFrequency, totalEntries, weatherMatch, daysSinceLastOccurrence) ==
    LET patternStrength == Min(100 * patternFrequency, 40 * totalEntries)
        weather == IF weatherMatch THEN 30 * totalEntries ELSE 0
        recencyScore == Max(0, (30 - 2 * daysSinceLastOccurrence) * totalEntries)
    IN  Min(patternStrength + weather + recencyScore, 100 * totalEntries)

\* getRiskLevel with a fault seeded, for the sensitivity check of the properties
getRiskLevel_ConfidenceOnly(confidence, likelihood) ==
    IF 100 * confidence.n >= 80 * confidence.d THEN "high"
    ELSE IF 100 * confidence.n >= 50 * confidence.d THEN "medium"
    ELSE "low"

\* getRiskLevel with a fault seeded, for the sensitivity check of the properties
getRiskLevel_RaisedThresholds(confidence, likelihood) ==
    LET score2 == 100 * confidence.n + likelihood * confidence.d
    IN  IF score2 >= 160 * confidence.d THEN "high"
        ELSE IF score2 >= 120 * confidence.d THEN "medium"
        ELSE "low"

\* getRiskLevel: score = (confidence + likelihood / 100) / 2 against 0.7, 0.5
getRiskLevel(confidence, likelihood) ==
    LET score2 == 100 * confidence.n + likelihood * confidence.d  \* 2 * score * 100 * d
    IN  IF score2 >= 140 * confidence.d THEN "high"
        ELSE IF score2 >= 100 * confidence.d THEN "medium"
        ELSE "low"

(****************************** generation *********************************)
\* ShortCircuit with a fault seeded, for the sensitivity check of the properties
ShortCircuit_NoLengthCheck(settings, es) == ~settings.enabled

\* line 428: the checks before any work is done
ShortCircuit(settings, es) == ~settings.enabled \/ Len(es) < MinEntries

\* MeetsMinConfidence with a fault seeded, for the sensitivity check of the properties
MeetsMinConfidence_Always(n, settings, total) == TRUE

\* lines 482 and 546: confidence >= settings.minConfidence, for confidence
\* n / (100 * total) and minConfidence in hundredths
MeetsMinConfidence(n, settings, total) == n >= settings.minConfidence * total

\* CaughtResult with a fault seeded, for the sensitivity check of the properties
CaughtResult_Computed(predictions) == predictions

\* lines 587-590: what the catch block returns in place of the predictions
CaughtResult(predictions) == <<>>

\* !pattern.dayOfWeek: undefined, 0 and NaN are falsy
Falsy(v) == v \in {Undefined, 0, NaN}

\* FindWeatherMatch with a fault seeded, for the sensitivity check of the properties
FindWeatherMatch_AnySymptom(weatherTriggers, symptom) ==
    LET idx == {i \in 1..Len(weatherTriggers) : weatherTriggers[i].weatherSensitive}
    IN  IF idx = {} THEN <<>>
        ELSE <<weatherTriggers[CHOOSE i \in idx : \A j \in idx : i <= j]>>

\* the first weatherTriggers element for the symptom that is weatherSensitive
\* (Array.prototype.find), as a sequence of at most one element
FindWeatherMatch(weatherTriggers, symptom) ==
    LET idx == {i \in 1..Len(weatherTriggers) :
                    weatherTriggers[i].symptom = symptom /\ weatherTriggers[i].weatherSensitive}
    IN  IF idx = {} THEN <<>>
        ELSE <<weatherTriggers[CHOOSE i \in idx : \A j \in idx : i <= j]>>

\* Math.floor((today - new Date(pattern.lastOccurrence)) / 86400000); NaN
\* when lastOccurrence is not a date
DaysSinceLastOccurrence(today, lastOccurrence) ==
    IF lastOccurrence = Undefined THEN NaN
    ELSE FloorDiv(LocalMidnight(today) - ParseDate(lastOccurrence), TicksPerDay)

\* PredictedDate with a fault seeded, for the sensitivity check of the properties
PredictedDate_FromNow(today, k) == IsoDate(NowTick + k * TicksPerDay)

\* new Date(today); setDate(getDate() + k); toISOString().split('T')[0]
PredictedDate(today, k) == IsoDate(LocalMidnight(today + k))

\* the prediction object of lines 505-518 and 551-571, before its id
MakePrediction(pattern, confidence, daysUntilPattern, today, triggers, reasoning) ==
    LET likelihood == MathRound(100 * confidence.n, confidence.d)
    IN  [type |-> "symptom",
         symptom |-> pattern.symptom,
         riskLevel |-> getRiskLevel(confidence, likelihood),
         confidence |-> confidence,
         daysAhead |-> daysUntilPattern,
         predictedDate |-> PredictedDate(today, daysUntilPattern),
         likelihood |-> likelihood,
         triggers |-> triggers,
         reasoning |-> reasoning]

\* lines 465-521: the prediction of a day-of-week pattern (at most one)
WeeklyPrediction(pattern, settings, weatherTriggers, today, total) ==
    IF pattern.dayOfWeek = Undefined \/ pattern.dayOfWeek = NaN THEN <<>>
    ELSE
    LET days == DaysSinceLastOccurrence(today, pattern.lastOccurrence)
        diff == pattern.dayOfWeek - GetDay(today)
        daysUntilPattern == IF diff <= 0 THEN diff + 7 ELSE diff
        weatherMatch == FindWeatherMatch(weatherTriggers, pattern.symptom)
        n == calculateConfidence(pattern.frequency, total, weatherMatch # <<>>, days)
        confidence == [n |-> n, d |-> 100 * total]
        triggers ==
            <<[type |-> "pattern", factor |-> <<"Weekly pattern">>, impact |-> 60]>>
            \o (IF weatherMatch # <<>> /\ Len(weatherMatch[1].triggers) > 0
                   THEN <<[type |-> "weather", factor |-> weatherMatch[1].triggers,
                           impact |-> 40]>>
                   ELSE <<>>)
    IN  IF /\ daysUntilPattern <= settings.daysToPredict
           /\ days # NaN
           /\ MeetsMinConfidence(n, settings, total)
        THEN <<MakePrediction(pattern, confidence, daysUntilPattern, today, triggers,
                              <<"occurrences", pattern.frequency>>)>>
        ELSE <<>>

\* lines 524-536: the distance to the pattern's day of the month
MonthlyDaysUntil(today, targetDate) ==
    IF targetDate - GetDate(today) < 0
    THEN SetNextMonth(today, targetDate) - today
    ELSE targetDate - GetDate(today)

\* MonthlyPrediction with a fault seeded, for the sensitivity check of the properties
MonthlyPrediction_WeatherScored(pattern, settings, today, total) ==
    IF pattern.timeOfMonth = Undefined \/ ~Falsy(pattern.dayOfWeek) THEN <<>>
    ELSE
    LET days == DaysSinceLastOccurrence(today, pattern.lastOccurrence)
        daysUntilPattern == MonthlyDaysUntil(today, pattern.timeOfMonth)
        n == calculateConfidence(pattern.frequency, total, TRUE, days)
        confidence == [n |-> n, d |-> 100 * total]
        triggers == <<[type |-> "cyclic", factor |-> <<"Monthly cycle">>, impact |-> 70]>>
    IN  IF /\ daysUntilPattern <= settings.daysToPredict /\ daysUntilPattern > 0
           /\ days # NaN
           /\ MeetsMinConfidence(n, settings, total)
        THEN <<MakePrediction(pattern, confidence, daysUntilPattern, today, triggers,
                              <<"monthly">>)>>
        ELSE <<>>

\* lines 523-574: the prediction of a day-of-month pattern (at most one)
MonthlyPrediction(pattern, settings, today, total) ==
    IF pattern.timeOfMonth = Undefined \/ ~Falsy(pattern.dayOfWeek) THEN <<>>
    ELSE
    LET days == DaysSinceLastOccurrence(today, pattern.lastOccurrence)
        daysUntilPattern == MonthlyDaysUntil(today, pattern.timeOfMonth)
        n == calculateConfidence(pattern.frequency, total, FALSE, days)
        confidence == [n |-> n, d |-> 100 * total]
        triggers == <<[type |-> "cyclic", factor |-> <<"Monthly cycle">>, impact |-> 70]>>
    IN  IF /\ daysUntilPattern <= settings.daysToPredict /\ daysUntilPattern > 0
           /\ days # NaN
           /\ MeetsMinConfidence(n, settings, total)
        THEN <<MakePrediction(pattern, confidence, daysUntilPattern, today, triggers,
                              <<"monthly">>)>>
        ELSE <<>>

\* patterns.forEach(...): the predictions in the order they are pushed
PushedPredictions(patterns, settings, weatherTriggers, today, total) ==
    FlatSeq([k \in 1..Len(patterns) |->
        WeeklyPrediction(patterns[k], settings, weatherTriggers, today, total)
        \o MonthlyPrediction(patterns[k], settings, today, total)])

\* id: `pred-${Date.now()}-${Math.random()}` and createdAt: Date.now(), given
\* to each pushed prediction; draws are the values of Math.random()
WithIds(preds, tick, draws) ==
    [i \in 1..Len(preds) |->
        [type |-> preds[i].type, symptom |-> preds[i].symptom,
         riskLevel |-> preds[i].riskLevel, confidence |-> preds[i].confidence,
         daysAhead |-> preds[i].daysAhead, predictedDate |-> preds[i].predictedDate,
         likelihood |-> preds[i].likelihood, triggers |-> preds[i].triggers,
         reasoning |-> preds[i].reasoning,
         id |-> <<tick, draws[i]>>, createdAt |-> tick]]

\* the comparator of predictions.sort: daysAhead ascending, then confidence
\* descending (both confidences are over the same denominator or compared
\* as fractions)
ComparePredictions(a, b) ==
    IF a.daysAhead # b.daysAhead THEN a.daysAhead - b.daysAhead
    ELSE b.confidence.n * a.confidence.d - a.confidence.n * b.confidence.d

RECURSIVE InsertPrediction(_, _)
InsertPrediction(x, s) ==
    IF s = <<>> THEN <<x>>
    ELSE IF ComparePredictions(x, Head(s)) < 0 THEN <<x>> \o s
    ELSE <<Head(s)>> \o InsertPrediction(x, Tail(s))

\* SortPredictions with a fault seeded, for the sensitivity check of the properties
SortPredictions_Unsorted(s) == s

RECURSIVE SortPredictions(_)
SortPredictions(s) ==
    IF s = <<>> THEN <<>>
    ELSE InsertPrediction(s[Len(s)], SortPredictions(SubSeq(s, 1, Len(s) - 1)))

(******************************** store ************************************)
\* getStoredPredictions with a fault seeded, for the sensitivity check of the properties
getStoredPredictions_NoFilter == IF predStore.present THEN predStore.value ELSE <<>>

\* getStoredPredictions: the stored predictions that have not expired
getStoredPredictions ==
    IF predStore.present
    THEN SelectSeq(predStore.value, LAMBDA p : p.predictedDate >= TodayUtc)
    ELSE <<>>

\* getTodayPredictions
getTodayPredictions == SelectSeq(getStoredPredictions, LAMBDA p : p.predictedDate = TodayUtc)

\* getHighRiskPredictions with a fault seeded, for the sensitivity check of the properties
getHighRiskPredictions_Unfiltered ==
    SelectSeq(IF predStore.present THEN predStore.value ELSE <<>>,
              LAMBDA p : p.riskLevel = "high")

\* getHighRiskPredictions
getHighRiskPredictions == SelectSeq(getStoredPredictions, LAMBDA p : p.riskLevel = "high")

\* savePredictions with a fault seeded, for the sensitivity check of the properties
savePredictions_Append(predictions) ==
    predStore' = Item((IF predStore.present THEN predStore.value ELSE <<>>) \o predictions)

\* savePredictions with a fault seeded, for the sensitivity check of the properties
savePredictions_SkipEmpty(predictions) ==
    IF predictions = <<>> THEN predStore' = predStore ELSE predStore' = Item(predictions)

\* savePredictions: the item is replaced by the whole array
savePredictions(predictions) == predStore' = Item(predictions)

\* savePredictionsThrows with a fault seeded, for the sensitivity check of the properties
savePredictionsThrows_Clears == predStore' = NoItem

\* savePredictions when localStorage.setItem throws (quota exceeded): the
\* item keeps the value it had
savePredictionsThrows == predStore' = predStore

(******************************* inputs ************************************)
\* the settings the user saves (PredictionSettings component)
Settings(enabled, weatherIntegration, minConfidence, daysToPredict) ==
    [enabled |-> enabled, notificationsEnabled |-> TRUE,
     weatherIntegration |-> weatherIntegration,
     minConfidence |-> minConfidence, daysToPredict |-> daysToPredict]

SettingsChoices ==
    {Settings(FALSE, TRUE, 60, 3), Settings(TRUE, FALSE, 40, 7),
     Settings(TRUE, TRUE, 40, 7)}

\* the journal: one entry per date, StartDay - k for the offsets k below, kept
\* oldest first as saveJournalEntry pushes them
RecordOffsets == <<34, 29, 28, 27, 13, 6, 5>>

\* the entry dates on which a symptom is logged, as offsets
HeadacheOffsets == {{5, 6}, {5, 13}, {27, 28, 29}}
NauseaOffsets == {{}, {5, 6}}

\* a symptom on two Mondays of one month and on the Sunday between them: the
\* same weekday twice and the days of the month close together
WeeklyAndMonthlyOffsets == {27, 28, 34}

EntryAt(k, headache, nausea) ==
    [date |-> StartDay - k,
     symptoms |-> Arr((IF k \in headache THEN <<"Headache">> ELSE <<>>)
                      \o (IF k \in nausea THEN <<"Nausea">> ELSE <<>>))]

Journal(len, headache, nausea) ==
    [i \in 1..len |-> EntryAt(RecordOffsets[Len(RecordOffsets) - len + i], headache, nausea)]

\* malformed journals: the entries and one more whose symptoms is not an
\* array, the entries and one more with no date, every entry with no date
Malformed(es) ==
    {Append(es, [date |-> StartDay - 4, symptoms |-> NotAnArray]),
     Append(es, [date |-> Undefined, symptoms |-> Arr(<<"Headache">>)]),
     [i \in 1..Len(es) |-> [es[i] EXCEPT !.date = Undefined]]}

Journals ==
    {Journal(MinEntries - 1, {5, 6}, {})}
    \cup {Journal(MinEntries, h, n) : h \in HeadacheOffsets, n \in NauseaOffsets}
    \cup {Journal(MinEntries, WeeklyAndMonthlyOffsets, {})}
    \cup Malformed(Journal(MinEntries, {5, 13}, {5, 6}))

\* the local timezones: behind UTC, UTC, ahead of UTC
TimeZones == {-1, 0, 1}

\* the weather provider's answers: both fetches, each a value or a failure
CurrentWeather == [temperature |-> 20, humidity |-> 50, pressure |-> 1013]
Tomorrows ==
    {[temperature |-> 20, humidity |-> 50, pressure |-> 1013],
     [temperature |-> 20, humidity |-> 50, pressure |-> 1007],
     [temperature |-> 31, humidity |-> 71, pressure |-> 1008],
     [temperature |-> 9, humidity |-> 50, pressure |-> 1013]}

ForecastPoint(w, daysAhead) ==
    [temperature |-> w.temperature, humidity |-> w.humidity, pressure |-> w.pressure,
     daysAhead |-> daysAhead]

WeatherResponses ==
    {[forecast |-> FetchFailed, current |-> FetchFailed]}
    \cup {[forecast |-> Fetched(<<ForecastPoint(CurrentWeather, 0), ForecastPoint(t, 1)>>),
           current |-> FetchFailed] : t \in {CHOOSE t \in Tomorrows : t.pressure = 1007}}
    \cup {[forecast |-> Fetched(<<ForecastPoint(CurrentWeather, 0)>>),
           current |-> Fetched(CurrentWeather)]}
    \cup {[forecast |-> Fetched(<<ForecastPoint(CurrentWeather, 0), ForecastPoint(t, 1)>>),
           current |-> Fetched(CurrentWeather)] : t \in Tomorrows}

\* the values Math.random() returns, and the sequences of them a call draws
RandomDraws == {0, 1}
DrawSequences(k) == {[i \in 1..k |-> (i + first) % 2] : first \in RandomDraws}

(***************************** the engine **********************************)
Runs == {1, 2}

\* a generateHealthPredictions call: its position, its locals, and how it
\* ended.  outcome: the promise is pending, resolved with ret, or rejected.
\* exit: the way out of the function.  overlapped: another call was suspended
\* at its weather fetch while this one ran.  wx: what the weather provider
\* answered, when it was asked.
NotFetched == [forecast |-> FetchFailed, current |-> FetchFailed]

NoRun ==
    [pc |-> "idle", settings |-> DEFAULT_PREDICTION_SETTINGS, patterns |-> <<>>,
     outcome |-> "pending", ret |-> <<>>, exit |-> "none",
     weather |-> "off", weatherTriggers |-> <<>>, today |-> 0, wrote |-> FALSE,
     overlapped |-> FALSE, wx |-> NotFetched]

\* another call is suspended at its weather fetch
OthersAwaiting(r) == \E o \in Runs \ {r} : run[o].pc = "awaitWeather"

\* lines 455-590 with the weather known: the predictions are computed, sorted
\* and saved; a throw of localStorage.setItem (quota) is caught at line 587
Complete(r, settings, patterns, wx, weather, weatherTriggers, quotaOk) ==
    LET today == LocalDay(NowTick)
        pushed == PushedPredictions(patterns, settings, weatherTriggers, today, Len(entries))
    IN  \E draws \in DrawSequences(Len(pushed)) :
        LET predictions == SortPredictions(WithIds(pushed, NowTick, draws))
            ended == [pc |-> "done", settings |-> settings, patterns |-> patterns,
                      outcome |-> "returned", ret |-> predictions, exit |-> "completed",
                      weather |-> weather, weatherTriggers |-> weatherTriggers,
                      today |-> today, wrote |-> TRUE,
                      overlapped |-> run[r].overlapped \/ OthersAwaiting(r),
                      wx |-> wx]
        IN  IF quotaOk
            THEN /\ savePredictions(predictions)
                 /\ run' = [run EXCEPT ![r] = ended]
            ELSE /\ savePredictionsThrows
                 /\ run' = [run EXCEPT ![r] =
                        [ended EXCEPT !.ret = CaughtResult(predictions),
                                      !.exit = "caughtStoreWrite",
                                      !.wrote = FALSE]]

\* generateHealthPredictions up to its first await (lines 426-445), and to
\* its end when no weather is fetched
Start(r) ==
    /\ run[r].pc = "idle"
    /\ UNCHANGED <<now, tz, settingsStore>>
    /\ LET settings == getPredictionSettings
           called == [NoRun EXCEPT !.settings = settings,
                                   !.overlapped = OthersAwaiting(r)]
       IN  IF ShortCircuit(settings, entries)
           THEN /\ run' = [run EXCEPT ![r] = [called EXCEPT !.pc = "done",
                            !.outcome = "returned", !.exit = "shortCircuit"]]
                /\ UNCHANGED <<entries, predStore>>
           ELSE \E sortThrew \in SortThrows(entries) :
                IF sortThrew
                THEN \* line 433 is outside the try: the promise is rejected
                     /\ run' = [run EXCEPT ![r] = [called EXCEPT !.pc = "done",
                            !.outcome = "threw", !.exit = "sortThrew"]]
                     /\ UNCHANGED <<entries, predStore>>
                ELSE LET sortedEntries == SortEntries(entries)
                     IN  /\ entries' = sortedEntries
                         /\ IF analyzePatternsThrows(sortedEntries)
                            THEN /\ run' = [run EXCEPT ![r] = [called EXCEPT
                                        !.pc = "done", !.outcome = "returned",
                                        !.ret = CaughtResult(<<>>),
                                        !.exit = "caughtAnalyze"]]
                                 /\ UNCHANGED predStore
                            ELSE LET patterns == analyzePatterns(sortedEntries)
                                 IN  IF settings.weatherIntegration
                                     THEN /\ run' = [run EXCEPT ![r] = [called EXCEPT
                                                !.pc = "awaitWeather",
                                                !.patterns = patterns]]
                                          /\ UNCHANGED predStore
                                     ELSE \E quotaOk \in BOOLEAN :
                                          Complete(r, settings, patterns, NotFetched,
                                                   "off", <<>>, quotaOk)

\* how the weather step of lines 443-453 ended
WeatherStatus(wx) ==
    IF ~wx.forecast.ok THEN "forecastFailed"
    ELSE IF ~wx.current.ok THEN "currentFailed"
    ELSE "ok"

\* the rest of generateHealthPredictions once the weather provider has
\* answered (lines 445-590)
Finish(r) ==
    /\ run[r].pc = "awaitWeather"
    /\ UNCHANGED <<now, tz, settingsStore, entries>>
    /\ \E wx \in WeatherResponses, quotaOk \in BOOLEAN :
        Complete(r, run[r].settings, run[r].patterns, wx, WeatherStatus(wx),
                 WeatherTriggers(entries, wx), quotaOk)

\* the caller's continuation of `await generateHealthPredictions(entries)`:
\* it runs as soon as the promise is settled, before any other event
Deliver(r) ==
    /\ run[r].pc = "done"
    /\ run' = [run EXCEPT ![r] = NoRun]
    /\ UNCHANGED <<now, tz, entries, settingsStore, predStore>>

\* savePredictionSettings
savePredictionSettings(settings) ==
    /\ settingsStore' = Item(settings)
    /\ UNCHANGED <<now, tz, entries, predStore, run>>

\* clearOldPredictions with a fault seeded, for the sensitivity check of the properties
clearOldPredictions_DropToday ==
    /\ savePredictions(SelectSeq(getStoredPredictions, LAMBDA p : p.predictedDate > TodayUtc))
    /\ UNCHANGED <<now, tz, entries, settingsStore, run>>

\* clearOldPredictions
clearOldPredictions ==
    /\ LET predictions == getStoredPredictions
           active == SelectSeq(predictions, LAMBDA p : p.predictedDate >= TodayUtc)
       IN  savePredictions(active)
    /\ UNCHANGED <<now, tz, entries, settingsStore, run>>

\* time passes
Tick ==
    /\ now < MaxNow
    /\ now' = now + 1
    /\ UNCHANGED <<tz, entries, settingsStore, predStore, run>>

Init ==
    /\ now = 0
    /\ tz \in TimeZones
    /\ entries \in Journals
    /\ settingsStore = NoItem
    /\ predStore = NoItem
    /\ run = [r \in Runs |-> NoRun]

\* one session, one generation at a time
Settled == \E r \in Runs : run[r].pc = "done"

Next ==
    \/ Start(1)
    \/ Finish(1)
    \/ Deliver(1)
    \/ ~Settled /\ \E settings \in SettingsChoices : savePredictionSettings(settings)
    \/ ~Settled /\ clearOldPredictions
    \/ ~Settled /\ Tick

Spec == Init /\ [][Next]_vars

\* two generations of one session, which may overlap at the weather fetch;
\* the settings are those saved before the session and the results stay with
\* their callers
TwoRunJournals == {Journal(MinEntries, {5, 13}, {5, 6})}

InitTwoRuns ==
    /\ now = 0
    /\ tz \in TimeZones
    /\ entries \in TwoRunJournals
    /\ settingsStore \in {NoItem} \cup {Item(s) : s \in SettingsChoices}
    /\ predStore = NoItem
    /\ run = [r \in Runs |-> NoRun]

\* time passes, for one day at most while the session lasts
TickInSession ==
    /\ now < TicksPerDay
    /\ Tick

NextTwoRuns ==
    \/ \E r \in Runs : Start(r)
    \/ \E r \in Runs : Finish(r)
    \/ TickInSession

SpecTwoRuns == InitTwoRuns /\ [][NextTwoRuns]_vars

\* a journal kept daily: len records on consecutive dates, the most recent
\* one dated `first` days before the start of the session, oldest first;
\* "Headache" is logged on the Mondays among the most recent 28 dates and
\* nothing else is logged
DailyJournal(len, first) ==
    [i \in 1..len |->
        LET k == first + len - i
            date == StartDay - k
        IN  [date |-> date,
             symptoms |-> Arr(IF GetDay(date) = 1 /\ k - first < 28
                              THEN <<"Headache">> ELSE <<>>)]]

DailyJournals == {DailyJournal(len, first) : len \in {28, 29, 30}, first \in {0, 1}}

\* a journal begun a week ago: 7 records on consecutive dates, the most
\* recent one dated `first` days before the start of the session, oldest
\* first; "Nausea" is logged in the two most recent records
RecentJournal(first) ==
    [i \in 1..MinEntries |->
        [date |-> StartDay - (first + MinEntries - i),
         symptoms |-> Arr(IF i > MinEntries - 2 THEN <<"Nausea">> ELSE <<>>)]]

RecentJournals == {RecentJournal(first) : first \in {0, 1}}

\* predictions enabled, weather integration off, minConfidence 0.5
DailySettings == {Settings(TRUE, FALSE, 50, d) : d \in {3, 7}}

InitDaily ==
    /\ now = 0
    /\ tz \in TimeZones
    /\ entries \in DailyJournals \cup RecentJournals
    /\ settingsStore \in {Item(s) : s \in DailySettings}
    /\ predStore = NoItem
    /\ run = [r \in Runs |-> NoRun]

\* one session over a daily journal: no weather is fetched
NextDaily ==
    \/ Start(1)
    \/ Deliver(1)
    \/ ~Settled /\ \E settings \in DailySettings : savePredictionSettings(settings)
    \/ ~Settled /\ clearOldPredictions
    \/ ~Settled /\ Tick

SpecDaily == InitDaily /\ [][NextDaily]_vars

(***************************************************************************)
(*                              Properties                                 *)
(***************************************************************************)
Range(s) == {s[i] : i \in 1..Len(s)}

\* the runs whose promise has been resolved with a value
Returned == {r \in Runs : run[r].pc = "done" /\ run[r].outcome = "returned"}

\* every prediction a settled call returned
ReturnedPredictions == UNION {Range(run[r].ret) : r \in Returned}

\* a prediction without its id and createdAt
Strip(p) ==
    [type |-> p.type, symptom |-> p.symptom, riskLevel |-> p.riskLevel,
     confidence |-> p.confidence, daysAhead |-> p.daysAhead,
     predictedDate |-> p.predictedDate, likelihood |-> p.likelihood,
     triggers |-> p.triggers, reasoning |-> p.reasoning]
StripAll(ps) == [i \in 1..Len(ps) |-> Strip(ps[i])]

\* the persisted predictions, expired or not
Persisted == IF predStore.present THEN predStore.value ELSE <<>>

\* C1: a generate() call made with settings.enabled false or with fewer than
\* 7 records returns an empty sequence and leaves the persisted prediction
\* set exactly as it was before the call.
C1_ShortCircuitNoWrite ==
    [][\A r \in Runs :
        (/\ run[r].pc = "idle" /\ run'[r].pc # "idle"
         /\ (~getPredictionSettings.enabled \/ Len(entries) < 7))
        => (/\ run'[r].pc = "done" /\ run'[r].outcome = "returned"
            /\ run'[r].ret = <<>>
            /\ predStore' = predStore)]_vars

\* a disabled call has just returned and the earlier predictions are still stored
C1_Witness ==
    \E r \in Runs :
        /\ run[r].pc = "done" /\ run[r].exit = "shortCircuit"
        /\ ~run[r].settings.enabled
        /\ Len(Persisted) > 0

\* C2: every returned Prediction has 0 <= confidence <= 1, 0 <= likelihood
\* <= 100, and likelihood is confidence x 100 rounded to the nearest integer
\* (halves up): likelihood - 1/2 <= 100 * confidence < likelihood + 1/2.
C2_ConfidenceAndLikelihood ==
    \A p \in ReturnedPredictions :
        /\ 0 <= p.confidence.n /\ p.confidence.n <= p.confidence.d
        /\ p.likelihood \in 0..100
        /\ (2 * p.likelihood - 1) * p.confidence.d <= 200 * p.confidence.n
        /\ 200 * p.confidence.n < (2 * p.likelihood + 1) * p.confidence.d

\* a returned prediction whose confidence x 100 is not an integer
C2_Witness ==
    \E p \in ReturnedPredictions : (100 * p.confidence.n) % p.confidence.d # 0

SortedByDaysThenConfidence(ps) ==
    \A i \in 1..Len(ps), j \in 1..Len(ps) :
        i < j =>
            /\ ps[i].daysAhead <= ps[j].daysAhead
            /\ ps[i].daysAhead = ps[j].daysAhead =>
                    ps[i].confidence.n * ps[j].confidence.d
                        >= ps[j].confidence.n * ps[i].confidence.d

\* C4: in the sequence generate() returns and in the sequence it persists,
\* daysAhead is non-decreasing and, among equal daysAhead, confidence is
\* non-increasing.
C4_Sorted ==
    /\ \A r \in Returned : SortedByDaysThenConfidence(run[r].ret)
    /\ SortedByDaysThenConfidence(Persisted)

\* a call returned predictions in another order than it pushed them
C4_Witness ==
    \E r \in Returned :
        /\ Len(run[r].ret) >= 2
        /\ StripAll(run[r].ret) #
            PushedPredictions(run[r].patterns, run[r].settings, run[r].weatherTriggers,
                              run[r].today, Len(entries))

\* C5: a persisted Prediction whose predictedDate is before the query's today
\* is returned by none of getAll(), getForToday(), getHighRisk(), purged or
\* not; one whose predictedDate is today or later is returned by getAll().
C5_Expiry ==
    \A p \in Range(Persisted) :
        /\ p.predictedDate < TodayUtc =>
                /\ p \notin Range(getStoredPredictions)
                /\ p \notin Range(getTodayPredictions)
                /\ p \notin Range(getHighRiskPredictions)
        /\ p.predictedDate >= TodayUtc => p \in Range(getStoredPredictions)

\* the store still holds an expired high-risk prediction beside a live one
C5_Witness ==
    /\ \E p \in Range(Persisted) : p.predictedDate < TodayUtc /\ p.riskLevel = "high"
    /\ \E p \in Range(Persisted) : p.predictedDate >= TodayUtc

\* what a caller compares of a run's input: the settings read, the local
\* today, and the weather as the generator received it
SameInputs(r1, r2) ==
    /\ run[r1].settings = run[r2].settings
    /\ run[r1].today = run[r2].today
    /\ run[r1].weather = run[r2].weather
    /\ run[r1].weatherTriggers = run[r2].weatherTriggers

WeeklyCandidate(r, pattern) ==
    calculateConfidence(pattern.frequency, Len(entries),
        FindWeatherMatch(run[r].weatherTriggers, pattern.symptom) # <<>>,
        DaysSinceLastOccurrence(run[r].today, pattern.lastOccurrence))

\* C7: every Prediction generate() returns has confidence >=
\* settings.minConfidence, and a weekly candidate whose computed confidence is
\* below minConfidence produces no Prediction.
C7_MinConfidence ==
    \A r \in Returned :
        /\ \A p \in Range(run[r].ret) :
                100 * p.confidence.n >= run[r].settings.minConfidence * p.confidence.d
        /\ \A k \in 1..Len(run[r].patterns) :
            LET pattern == run[r].patterns[k]
            IN  (/\ pattern.dayOfWeek \in 0..6
                 /\ pattern.lastOccurrence # Undefined
                 /\ WeeklyCandidate(r, pattern)
                        < run[r].settings.minConfidence * Len(entries))
                => ~\E p \in Range(run[r].ret) :
                        /\ p.symptom = pattern.symptom
                        /\ p.triggers[1].type = "pattern"

\* a run kept one weekly candidate and dropped another for its confidence
C7_Witness ==
    \E r \in Returned :
        /\ run[r].exit = "completed"
        /\ Len(run[r].ret) > 0
        /\ \E k \in 1..Len(run[r].patterns) :
            LET pattern == run[r].patterns[k]
                diff == pattern.dayOfWeek - GetDay(run[r].today)
            IN  /\ pattern.dayOfWeek \in 0..6
                /\ (IF diff <= 0 THEN diff + 7 ELSE diff) <= run[r].settings.daysToPredict
                /\ WeeklyCandidate(r, pattern)
                        < run[r].settings.minConfidence * Len(entries)

\* symptom, daysAhead, confidence and riskLevel of each prediction, in order
Outline(ps) ==
    [i \in 1..Len(ps) |->
        [symptom |-> ps[i].symptom, daysAhead |-> ps[i].daysAhead,
         confidence |-> ps[i].confidence, riskLevel |-> ps[i].riskLevel]]

WeatherFailed(r) == run[r].weather \in {"forecastFailed", "currentFailed"}

\* C8: with weatherIntegration on and the forecast fetch or the current
\* conditions fetch failing, generate() still returns, its predictions are
\* those (symptom, daysAhead, confidence, riskLevel) of a run with
\* weatherIntegration off, and none carries a weather trigger.
C8_WeatherBestEffort ==
    \A r \in Runs :
        (run[r].pc = "done" /\ WeatherFailed(r)) =>
            /\ run[r].settings.weatherIntegration
            /\ run[r].outcome = "returned"
            /\ run[r].exit = "completed" =>
                Outline(run[r].ret) =
                    Outline(SortPredictions(PushedPredictions(run[r].patterns,
                        [run[r].settings EXCEPT !.weatherIntegration = FALSE],
                        <<>>, run[r].today, Len(entries))))
            /\ \A p \in Range(run[r].ret) :
                    \A t \in 1..Len(p.triggers) : p.triggers[t].type # "weather"

\* the forecast arrived, the current conditions did not, and predictions were
\* returned all the same
C8_Witness ==
    \E r \in Returned :
        /\ run[r].weather = "currentFailed"
        /\ run[r].exit = "completed"
        /\ Len(run[r].ret) > 0

\* C9: generate() never propagates an error: with at least 7 records, however
\* malformed, the call ends by returning a sequence.
C9_NeverPropagates ==
    \A r \in Runs :
        (run[r].pc = "done" /\ Len(entries) >= MinEntries) => run[r].outcome = "returned"

\* C10 as stated: when the store write fails, what the caller receives differs
\* from what a successful run that found no patterns gives (an empty sequence
\* returned).
C10_StoreFailureSurfaced ==
    \A r \in Runs :
        (run[r].pc = "done" /\ run[r].exit = "caughtStoreWrite")
            => ~(run[r].outcome = "returned" /\ run[r].ret = <<>>)

\* C10 amended: a store-write failure during generate() is caught by the
\* function's error boundary: the call returns an empty sequence, the computed
\* predictions are dropped, and the persisted set stays as it was.
C10_StoreFailureSwallowed ==
    [][\A r \in Runs :
        (run[r].pc # "done" /\ run'[r].pc = "done" /\ run'[r].exit = "caughtStoreWrite")
        => (/\ run'[r].outcome = "returned"
            /\ run'[r].ret = <<>>
            /\ predStore' = predStore)]_vars

\* a store write failed on a run that had computed predictions
C10_Witness ==
    \E r \in Runs :
        /\ run[r].pc = "done" /\ run[r].exit = "caughtStoreWrite"
        /\ PushedPredictions(run[r].patterns, run[r].settings, run[r].weatherTriggers,
                             run[r].today, Len(entries)) # <<>>

\* the records that have a date and a sequence of symptoms
ValidEntries(es) == SelectSeq(es, LAMBDA e : e.date # Undefined /\ e.symptoms.isArray)

\* what generate() returns now over the valid records alone, without weather
OverValidAlone(settings) ==
    LET valid == SortEntries(ValidEntries(entries))
    IN  SortPredictions(PushedPredictions(analyzePatterns(valid), settings, <<>>,
                                          LocalDay(NowTick), Len(valid)))

\* C11 as stated, for records with invalid symptom data: such a record is
\* skipped individually; with weather integration off and the store writable,
\* generate() over at least 7 valid records and some records whose symptoms
\* are not a sequence returns the predictions of the valid records alone.
C11_MalformedSkipped ==
    \A r \in Runs :
        (/\ run[r].pc = "done"
         /\ run[r].settings.enabled /\ ~run[r].settings.weatherIntegration
         /\ run[r].exit # "caughtStoreWrite"
         /\ ValidEntries(entries) # entries
         /\ \A i \in 1..Len(entries) : entries[i].date # Undefined
         /\ Len(ValidEntries(entries)) >= MinEntries)
        => (/\ run[r].outcome = "returned"
            /\ StripAll(run[r].ret) = OverValidAlone(run[r].settings))

\* C11 amended: a record whose symptoms are not a sequence is not skipped:
\* a call on at least 7 dated records of which one has invalid symptom data,
\* with predictions enabled, returns an empty sequence at once and leaves the
\* persisted set as it was.
C11_MalformedEmptiesRun ==
    [][\A r \in Runs :
        (/\ run[r].pc = "idle" /\ run'[r].pc # "idle"
         /\ getPredictionSettings.enabled
         /\ Len(entries) >= MinEntries
         /\ \A i \in 1..Len(entries) : entries[i].date # Undefined
         /\ \E i \in 1..Len(entries) : ~entries[i].symptoms.isArray)
        => (/\ run'[r].pc = "done" /\ run'[r].outcome = "returned"
            /\ run'[r].ret = <<>>
            /\ predStore' = predStore)]_vars

\* a call returned nothing for a record with invalid symptoms although its 7
\* valid records alone give predictions
C11_Witness ==
    \E r \in Runs :
        /\ run[r].pc = "done" /\ run[r].exit = "caughtAnalyze"
        /\ run[r].ret = <<>>
        /\ Len(ValidEntries(entries)) >= MinEntries
        /\ OverValidAlone(run[r].settings) # <<>>

\* run r ends in this step with its store write done
Writes(r) == run[r].pc # "done" /\ run'[r].pc = "done" /\ run'[r].exit = "completed"

\* C12: when two generate() runs overlap at their weather fetches, each run
\* that completes writes the store once, with its own complete result; the
\* store changes in no other way, so that once both have finished it holds
\* the complete result of the run that wrote last and never a mixture.
C12_LastWriteWins ==
    [][/\ \A r \in Runs : Writes(r) => predStore' = Item(run'[r].ret)
       /\ predStore' # predStore => \E r \in Runs : Writes(r)
       /\ (\A r \in Runs : run'[r].pc = "done") =>
            \/ ~predStore'.present /\ \A r \in Runs : run'[r].exit # "completed"
            \/ \E r \in Runs : run'[r].exit = "completed" /\ predStore' = Item(run'[r].ret)
      ]_vars

\* two overlapping runs completed with different predictions and the store
\* holds those of the second writer, here run 1
C12_Witness ==
    /\ \A r \in Runs : run[r].pc = "done" /\ run[r].exit = "completed" /\ run[r].overlapped
    /\ Len(run[1].ret) > 0 /\ Len(run[2].ret) > 0
    /\ StripAll(run[1].ret) # StripAll(run[2].ret)
    /\ predStore = Item(run[1].ret)

\* C13: when a generate() run passes the short-circuits and completes without
\* error, the store holds exactly the sequence it returns: a getAll() at that
\* time returns the same predictions in the same order, and whatever an
\* earlier run persisted is gone, also when the new result is empty.
C13_StoreHoldsResult ==
    [][\A r \in Runs :
        Writes(r) => /\ predStore' = Item(run'[r].ret)
                     /\ getStoredPredictions' = run'[r].ret
                     \* none expires before the run's local day is over
                     /\ \A p \in Range(run'[r].ret) :
                            p.predictedDate >= IsoDate(LocalMidnight(run'[r].today + 1) - 1)
                     /\ \A p \in Range(Persisted) :
                            p \in Range(Persisted') => p \in Range(run'[r].ret)
      ]_vars

\* run 1 persisted predictions, and run 2, a day later, completed with an
\* empty result: the store is present and empty
C13_Witness ==
    /\ run[1].pc = "done" /\ run[1].exit = "completed" /\ Len(run[1].ret) > 0
    /\ run[2].pc = "done" /\ run[2].exit = "completed" /\ run[2].ret = <<>>
    /\ run[2].today > run[1].today
    /\ predStore = Item(<<>>)

\* C14: in every store state and at every time, getForToday() returns exactly
\* the elements of getAll() dated today and getHighRisk() exactly those of
\* high risk, in the order of the store, and neither returns a prediction
\* that getAll() does not return.
C14_QueryFilters ==
    /\ getTodayPredictions =
            SelectSeq(Persisted, LAMBDA p : p.predictedDate = TodayUtc)
    /\ getHighRiskPredictions =
            SelectSeq(Persisted, LAMBDA p : p.riskLevel = "high" /\ p.predictedDate >= TodayUtc)
    /\ Range(getTodayPredictions) =
            {p \in Range(getStoredPredictions) : p.predictedDate = TodayUtc}
    /\ Range(getHighRiskPredictions) =
            {p \in Range(getStoredPredictions) : p.riskLevel = "high"}

\* both queries return some but not all of the predictions getAll() returns
C14_Witness ==
    /\ getTodayPredictions # <<>>
    /\ getTodayPredictions # getStoredPredictions
    /\ getHighRiskPredictions # <<>>
    /\ getHighRiskPredictions # getStoredPredictions

\* C15: purgeExpired() rewrites the persisted set to exactly the persisted
\* predictions with predictedDate >= today, in their order; it does not change
\* what getAll() returns, and a second purge on the same day changes nothing.
\* (A step that changes the prediction item and no run is a purge.)
C15_Purge ==
    [][(run' = run /\ predStore' # predStore) =>
        /\ predStore'.present
        /\ Persisted' = SelectSeq(Persisted, LAMBDA p : p.predictedDate >= TodayUtc)
        /\ getStoredPredictions' = getStoredPredictions
        /\ SelectSeq(Persisted', LAMBDA p : p.predictedDate >= TodayUtc) = Persisted'
      ]_vars

\* after a purge: of a run's weekly Nausea and monthly Headache predictions
\* only the monthly one, which has not expired, is left in the store
C15_Witness ==
    /\ \E i \in 1..Len(entries) : \E j \in 1..Len(entries[i].symptoms.items) :
            entries[i].symptoms.items[j] = "Nausea"
    /\ Len(Persisted) = 1
    /\ Persisted[1].symptom = "Headache"
    /\ Persisted[1].triggers[1].type = "cyclic"
    /\ Persisted[1].predictedDate >= TodayUtc

\* the default the specification documents
DocumentedDefault ==
    [enabled |-> TRUE, notificationsEnabled |-> TRUE, weatherIntegration |-> TRUE,
     minConfidence |-> 60, daysToPredict |-> 3]

\* C16: getSettings() returns the documented default while no settings were
\* ever saved; a saveSettings(s) makes getSettings() return s, and it goes on
\* returning s until the next save; saving settings changes neither the
\* persisted predictions nor a run, and generate() reads what getSettings()
\* returns.
C16_Settings ==
    [][/\ ~settingsStore.present => getPredictionSettings = DocumentedDefault
       /\ ~settingsStore'.present => getPredictionSettings' = DocumentedDefault
       /\ settingsStore' # settingsStore =>
            /\ settingsStore'.present
            /\ getPredictionSettings' = settingsStore'.value
            /\ predStore' = predStore
            /\ run' = run
       /\ settingsStore' = settingsStore => getPredictionSettings' = getPredictionSettings
       /\ \A r \in Runs : (run[r].pc = "idle" /\ run'[r].pc # "idle")
                            => run'[r].settings = getPredictionSettings
      ]_vars

\* settings other than the default were saved after predictions had been
\* persisted, and a call has read them
C16_Witness ==
    /\ settingsStore.present
    /\ getPredictionSettings # DocumentedDefault
    /\ Len(Persisted) > 0
    /\ \E r \in Runs : run[r].pc = "done" /\ run[r].settings = settingsStore.value
                        /\ ~run[r].settings.enabled

LoggedIn(es, symptom) ==
    {i \in 1..Len(es) : es[i].symptoms.isArray
                        /\ symptom \in Range(es[i].symptoms.items)}

\* Scenario B: a history of at least 7 well-formed records in which the
\* symptom is logged exactly twice, on two different weekdays
ScenarioB(es, symptom) ==
    /\ Len(es) >= MinEntries
    /\ \A i \in 1..Len(es) : es[i].date # Undefined /\ es[i].symptoms.isArray
    /\ Cardinality(LoggedIn(es, symptom)) = 2
    /\ \A i \in LoggedIn(es, symptom), j \in LoggedIn(es, symptom) :
            i # j => EntryGetDay(es[i].date) # EntryGetDay(es[j].date)

\* the runs that have analysed the journal
Analysed == {r \in Runs : run[r].pc # "idle" /\ run[r].settings.enabled}

SymptomLabels == {"Headache", "Nausea"}

\* C18 as stated: in Scenario B the detector emits no PatternMatch for the
\* symptom and the run returns no Prediction for it.
C18_ScenarioB_NoMatch ==
    \A r \in Analysed, s \in SymptomLabels :
        ScenarioB(entries, s) =>
            /\ \A k \in 1..Len(run[r].patterns) : run[r].patterns[k].symptom # s
            /\ \A p \in Range(run[r].ret) : p.symptom # s

\* C18: in Scenario B the detector emits exactly one PatternMatch for the
\* symptom, a day-of-week match on the weekday of one of its two records with
\* an occurrence count of 2, and no monthly match; a run that completes
\* returns a Prediction for the symptom only if the next such weekday is
\* within the window, and always if moreover the confidence without a
\* weather boost reaches minConfidence.
C18_ScenarioB_WeeklyMatch ==
    \A r \in Analysed, s \in SymptomLabels :
        ScenarioB(entries, s) =>
            LET matches == SelectSeq(run[r].patterns, LAMBDA m : m.symptom = s)
                m == matches[1]
                diff == m.dayOfWeek - GetDay(run[r].today)
                daysUntil == IF diff <= 0 THEN diff + 7 ELSE diff
                days == DaysSinceLastOccurrence(run[r].today, m.lastOccurrence)
                predicted == \E p \in Range(run[r].ret) : p.symptom = s
            IN  /\ Len(matches) = 1
                /\ m.timeOfMonth = Undefined
                /\ m.frequency = 2
                /\ \E i \in LoggedIn(entries, s) : m.dayOfWeek = EntryGetDay(entries[i].date)
                /\ (run[r].pc = "done" /\ run[r].exit = "completed") =>
                    /\ predicted => daysUntil <= run[r].settings.daysToPredict
                    /\ (/\ daysUntil <= run[r].settings.daysToPredict
                        /\ calculateConfidence(2, Len(entries), FALSE, days)
                             >= run[r].settings.minConfidence * Len(entries))
                       => predicted

C18_Witness ==
    \E r \in Analysed, s \in SymptomLabels :
        /\ ScenarioB(entries, s)
        /\ run[r].pc = "done" /\ run[r].exit = "completed"
        /\ \E p \in Range(run[r].ret) : p.symptom = s /\ p.triggers[1].type = "pattern"

\* Scenario A: a daily journal of 28 or more records whose only symptom is
\* "Headache", logged on each Monday of the last 4 weeks
ScenarioA(es) ==
    /\ Len(es) >= 28
    /\ \A i \in 1..Len(es) : es[i].date # Undefined /\ es[i].symptoms.isArray
    /\ \A i \in 1..Len(es) : es[i].symptoms.items \in {<<>>, <<"Headache">>}
    /\ \A i \in 1..Len(es) : es[i].symptoms.items = <<"Headache">> => GetDay(es[i].date) = 1
    /\ Cardinality(LoggedIn(es, "Headache")) = 4

\* the number of days from the local day to the next Monday after it
DaysToNextMonday(today) ==
    IF 1 - GetDay(today) <= 0 THEN 1 - GetDay(today) + 7 ELSE 1 - GetDay(today)

\* the runs of Scenario A that ran to the end: minConfidence 0.5, weather
\* integration off, and the window reaching the next Monday
ScenarioARuns ==
    {r \in Runs : /\ ScenarioA(entries)
                  /\ run[r].pc = "done" /\ run[r].exit = "completed"
                  /\ run[r].settings.enabled /\ ~run[r].settings.weatherIntegration
                  /\ run[r].settings.minConfidence = 50
                  /\ DaysToNextMonday(run[r].today) <= run[r].settings.daysToPredict}

C20_LastOccurrenceIsLatest ==
    \A r \in Analysed :
        \A k \in 1..Len(run[r].patterns) :
            LET m == run[r].patterns[k]
                logged == LoggedIn(entries, m.symptom)
            IN  (\A i \in logged : entries[i].date # Undefined) =>
                    /\ \A i \in logged : entries[i].date <= m.lastOccurrence
                    /\ run[r].pc = "done" => \A i \in logged :
                            DaysSinceLastOccurrence(run[r].today, m.lastOccurrence)
                              <= DaysSinceLastOccurrence(run[r].today, entries[i].date)

\* the runs that ran to the end and returned what they computed
Completed == {r \in Runs : run[r].pc = "done" /\ run[r].exit = "completed"}

\* the predictions of a run made from a day-of-week / a day-of-month pattern
WeeklyReturned(r) == {p \in Range(run[r].ret) : p.triggers[1].type = "pattern"}
MonthlyReturned(r) == {p \in Range(run[r].ret) : p.triggers[1].type = "cyclic"}

\* the day-of-week matches of a run for a symptom
WeeklyMatches(r, symptom) ==
    {m \in Range(run[r].patterns) : m.symptom = symptom /\ m.dayOfWeek # Undefined}

\* (dayOfWeek - weekday) mod 7, with 0 rolled to 7
RolledDistance(dayOfWeek, weekday) ==
    IF (dayOfWeek - weekday + 7) % 7 = 0 THEN 7 ELSE (dayOfWeek - weekday + 7) % 7

\* C21: every Prediction made from a day-of-week pattern has daysAhead equal
\* to (dayOfWeek - today's weekday) mod 7 with 0 rolled to 7 and within the
\* window, and its predictedDate is the calendar date daysAhead days after
\* today, whose weekday is the pattern's dayOfWeek.
C21_WeeklyDate ==
    \A r \in Completed : \A p \in WeeklyReturned(r) :
        \E m \in WeeklyMatches(r, p.symptom) :
            /\ p.daysAhead = RolledDistance(m.dayOfWeek, GetDay(run[r].today))
            /\ p.daysAhead <= run[r].settings.daysToPredict
            /\ p.predictedDate = run[r].today + p.daysAhead
            /\ GetDay(p.predictedDate) = m.dayOfWeek

\* the weather-sensitive TriggerMatch elements of a run for a symptom
SensitiveMatches(r, symptom) ==
    {i \in 1..Len(run[r].weatherTriggers) :
        /\ run[r].weatherTriggers[i].symptom = symptom
        /\ run[r].weatherTriggers[i].weatherSensitive}

\* C22: every Prediction made from a day-of-week pattern has as first trigger
\* a pattern trigger of impact 0.6 and factor "Weekly pattern"; it has a
\* second trigger, a weather trigger of impact 0.4 whose factor is the joined
\* factors of the TriggerMatch, exactly when the correlator returned a
\* weather-sensitive TriggerMatch for its symptom in this run; and no other.
C22_WeeklyTriggers ==
    \A r \in Completed : \A p \in WeeklyReturned(r) :
        LET sensitive == SensitiveMatches(r, p.symptom)
        IN  /\ p.triggers[1] =
                    [type |-> "pattern", factor |-> <<"Weekly pattern">>, impact |-> 60]
            /\ Len(p.triggers) = (IF sensitive = {} THEN 1 ELSE 2)
            /\ sensitive # {} =>
                    \E i \in sensitive :
                        /\ run[r].weatherTriggers[i].triggers # <<>>
                        /\ p.triggers[2] =
                             [type |-> "weather",
                              factor |-> run[r].weatherTriggers[i].triggers,
                              impact |-> 40]

\* one run returns a weekly prediction with a weather trigger and another
\* weekly prediction, of a symptom that is not weather-sensitive, without one
C22_Witness ==
    \E r \in Completed :
        \E p \in WeeklyReturned(r), q \in WeeklyReturned(r) :
            /\ Len(p.triggers) = 2 /\ p.triggers[2].factor = <<"pressure drop">>
            /\ Len(q.triggers) = 1
            /\ \E i \in 1..Len(run[r].weatherTriggers) :
                    /\ run[r].weatherTriggers[i].symptom = q.symptom
                    /\ ~run[r].weatherTriggers[i].weatherSensitive

\* the day-of-month matches of a run for a symptom
MonthlyMatches(r, symptom) ==
    {m \in Range(run[r].patterns) : m.symptom = symptom /\ m.timeOfMonth # Undefined}

\* C23: every Prediction made from a day-of-month pattern is scored without
\* the weather bonus and carries exactly one trigger, cyclic with impact 0.7,
\* whatever the correlator found for its symptom; its confidence is at most
\* 0.7.
C23_MonthlyNoWeather ==
    \A r \in Completed : \A p \in MonthlyReturned(r) :
        /\ p.triggers = <<[type |-> "cyclic", factor |-> <<"Monthly cycle">>, impact |-> 70]>>
        /\ 100 * p.confidence.n <= 70 * p.confidence.d
        /\ \E m \in MonthlyMatches(r, p.symptom) :
                /\ p.confidence.d = 100 * Len(entries)
                /\ p.confidence.n =
                     calculateConfidence(m.frequency, Len(entries), FALSE,
                        DaysSinceLastOccurrence(run[r].today, m.lastOccurrence))

\* a monthly prediction of a symptom the correlator flagged in the same run
C23_Witness ==
    \E r \in Completed : \E p \in MonthlyReturned(r) :
        /\ run[r].settings.weatherIntegration
        /\ SensitiveMatches(r, p.symptom) # {}
        /\ \E q \in WeeklyReturned(r) : q.symptom = p.symptom /\ Len(q.triggers) = 2

\* the runs whose call of the Pattern Detector returned
Detected ==
    {r \in Runs : \/ run[r].pc = "awaitWeather"
                  \/ run[r].pc = "done" /\ run[r].exit \in {"completed", "caughtStoreWrite"}}

\* the number of records logging the symptom on a weekday (NaN: no date)
WeekdayCount(es, symptom, day) ==
    Cardinality({i \in LoggedIn(es, symptom) : EntryGetDay(es[i].date) = day})

\* the count of the symptom's most frequent weekday
ModalCount(es, symptom) ==
    CHOOSE c \in 0..Len(es) :
        /\ \E day \in 0..6 \cup {NaN} : WeekdayCount(es, symptom, day) = c
        /\ \A day \in 0..6 \cup {NaN} : WeekdayCount(es, symptom, day) <= c

\* C24: given at least 7 records the detector emits a day-of-week match for
\* a symptom exactly when the symptom has at least 2 occurrences and the
\* count of its most frequent weekday is at least 40% of them (rounded up);
\* the match is on a modal weekday and counts all the occurrences.  Given
\* fewer than 7 records it emits nothing.
C24_WeeklyMatchRule ==
    /\ Len(entries) < MinEntries => analyzePatterns(entries) = <<>>
    /\ \A r \in Detected, s \in SymptomLabels :
        LET total == Cardinality(LoggedIn(entries, s))
            modal == ModalCount(entries, s)
        IN  /\ Len(entries) >= MinEntries
            /\ WeeklyMatches(r, s) # {} <=> (total >= 2 /\ 5 * modal >= 2 * total)
            /\ Cardinality({k \in 1..Len(run[r].patterns) :
                    run[r].patterns[k] \in WeeklyMatches(r, s)}) <= 1
            /\ \A m \in WeeklyMatches(r, s) :
                    /\ WeekdayCount(entries, s, m.dayOfWeek) = modal
                    /\ m.frequency = total
                    /\ m.frequency >= 2

\* one run in which a symptom logged three times on three weekdays has no
\* day-of-week match and a symptom logged twice has one
C24_Witness ==
    \E r \in Detected :
        /\ Cardinality(LoggedIn(entries, "Headache")) = 3
        /\ ModalCount(entries, "Headache") = 1
        /\ WeeklyMatches(r, "Headache") = {}
        /\ WeeklyMatches(r, "Nausea") # {}

\* the runs that ran to the end after the forecast was fetched, so that the
\* Trigger Correlator was called
Correlated ==
    {r \in Runs : /\ run[r].pc = "done"
                  /\ run[r].exit \in {"completed", "caughtStoreWrite"}
                  /\ run[r].settings.weatherIntegration
                  /\ run[r].wx.forecast.ok}

\* the symptoms of the history
Historical == {s \in SymptomLabels : LoggedIn(entries, s) # {}}

\* the forecast points for tomorrow
TomorrowPoints(forecast) == {f \in Range(forecast) : f.daysAhead = 1}

FactorOrder == <<"pressure drop", "temperature change", "humidity change">>

\* C25: the correlator returns exactly one TriggerMatch per distinct symptom
\* of the history, its factors in the order pressure drop, temperature
\* change, humidity change: pressure drop only for a headache or migraine
\* label when the pressure falls by more than 5, temperature change when the
\* temperature moves by more than 10, humidity change when the humidity moves
\* by more than 20; weatherSensitive exactly when there is a factor; without
\* a forecast point for tomorrow no symptom is weather-sensitive; without the
\* current weather there is no TriggerMatch at all.
C25_Correlator ==
    \A r \in Correlated :
        LET wx == run[r].wx
            matches == run[r].weatherTriggers
        IN  IF ~wx.current.ok THEN matches = <<>>
            ELSE
            /\ {matches[i].symptom : i \in 1..Len(matches)} = Historical
            /\ Len(matches) = Cardinality(Historical)
            /\ \A i \in 1..Len(matches) :
                LET factors == matches[i].triggers
                    label == matches[i].symptom
                IN  /\ matches[i].weatherSensitive <=> factors # <<>>
                    /\ factors = SelectSeq(FactorOrder, LAMBDA f : f \in Range(factors))
                    /\ TomorrowPoints(wx.forecast.value) = {} => factors = <<>>
                    /\ \A t \in TomorrowPoints(wx.forecast.value) :
                        /\ "pressure drop" \in Range(factors) <=>
                              /\ label \in {"Headache", "Migraine"}
                              /\ wx.current.value.pressure - t.pressure > 5
                        /\ "temperature change" \in Range(factors) <=>
                              Abs(t.temperature - wx.current.value.temperature) > 10
                        /\ "humidity change" \in Range(factors) <=>
                              Abs(t.humidity - wx.current.value.humidity) > 20

\* a falling pressure flags the headache and not the other symptom
C25_Witness ==
    \E r \in Correlated :
        /\ run[r].wx.current.ok
        /\ Len(run[r].weatherTriggers) = 2
        /\ \E i \in 1..2 : /\ run[r].weatherTriggers[i].symptom = "Headache"
                           /\ run[r].weatherTriggers[i].triggers = <<"pressure drop">>
        /\ \E i \in 1..2 : /\ run[r].weatherTriggers[i].symptom = "Nausea"
                           /\ ~run[r].weatherTriggers[i].weatherSensitive

\* C26: the caller's record sequence is read-only to generate(): a call,
\* however it ends, leaves the same records in the same order.
C26_EntriesReadOnly ==
    [][(\E r \in Runs : run'[r] # run[r]) => entries' = entries]_vars

\* the first calendar day from `today` on whose day of the month is dayOfMonth
NextDayOfMonth(today, dayOfMonth) ==
    CHOOSE d \in today..(today + 62) :
        /\ GetDate(d) = dayOfMonth
        /\ \A e \in today..(d - 1) : GetDate(e) # dayOfMonth

\* C27: for a Prediction made from a day-of-month pattern, daysAhead is the
\* number of days from today to the next calendar date whose day of the month
\* is the pattern's, it is positive and within the window, and the day of the
\* month of predictedDate is the pattern's (here for the time zones at or
\* west of UTC, where predictedDate is the local date).
C27_MonthlyDate ==
    \A r \in Completed : \A p \in MonthlyReturned(r) :
        tz <= 0 =>
            \E m \in MonthlyMatches(r, p.symptom) :
                /\ p.daysAhead = NextDayOfMonth(run[r].today, m.timeOfMonth) - run[r].today
                /\ 0 < p.daysAhead /\ p.daysAhead <= run[r].settings.daysToPredict
                /\ GetDate(p.predictedDate) = m.timeOfMonth

\* the runs that ended through the error boundary of generate()
Caught == {"caughtAnalyze", "caughtStoreWrite"}

\* C28: a call that ends through its error boundary writes nothing: the
\* persisted predictions and the settings are what they were before the call,
\* so getAll() still returns the unexpired predictions of the previous run,
\* while the failed call returns an empty list.
C28_FailedRunKeepsStore ==
    [][\A r \in Runs :
        (run[r].pc # "done" /\ run'[r].pc = "done" /\ run'[r].exit \in Caught)
        => (/\ run'[r].ret = <<>>
            /\ ~run'[r].wrote
            /\ Persisted' = Persisted
            /\ predStore'.present = predStore.present
            /\ settingsStore' = settingsStore
            /\ getStoredPredictions' = getStoredPredictions)]_vars

\* a failed call has returned nothing while getAll() returns the predictions
\* of an earlier run
C28_Witness ==
    \E r \in Runs :
        /\ run[r].pc = "done" /\ run[r].exit \in Caught
        /\ run[r].ret = <<>>
        /\ getStoredPredictions # <<>>
        /\ \A p \in Range(getStoredPredictions) : p.createdAt < NowTick

\* the prediction carries no weather trigger
NoWeatherTrigger(p) == \A i \in 1..Len(p.triggers) : p.triggers[i].type # "weather"

C30_NotForToday ==
    /\ \A p \in ReturnedPredictions : p.daysAhead \in 1..7
    /\ \A p \in Range(getTodayPredictions) :
            \/ LocalDay(NowTick) - LocalDay(p.createdAt) >= p.daysAhead
            \/ IsoDate(NowTick) - IsoDate(p.createdAt) >= p.daysAhead

====
